---- MODULE Spec2Model ----
(***************************************************************************)
(* Model of the polyglot command bridge                                    *)
(* (packages/philjs-polyglot/src/bridge.py).                               *)
(*                                                                         *)
(* The bridge reads one line at a time from stdin, decodes it with         *)
(* json.loads, hands the decoded command to handle_command, attaches the   *)
(* command's id and prints the JSON response.  exec/eval/call run against  *)
(* globals() of the bridge module itself, so the execution context is the  *)
(* module's own namespace: it starts with sys, json, traceback,            *)
(* handle_command and main bound.                                          *)
(*                                                                         *)
(* Python source text carried in "code" is modelled by a small abstract    *)
(* syntax (a sequence of statements); Python objects by tagged records.    *)
(***************************************************************************)
EXTENDS Integers, Sequences, FiniteSets, TLC

\* ---------------------------------------------------------------- bounds
\* Longest input stream that is explored.
MaxLines == 3

\* ------------------------------------------------------- Python objects
\* A Python object held in the namespace or produced by a command.
IntV(n) == [kind |-> "int", n |-> n]
NoneV == [kind |-> "none", n |-> 0]
DictV == [kind |-> "dict", n |-> 0]
UserFn == [kind |-> "fn_user", n |-> 0]
Unbound == [kind |-> "unbound", n |-> 0]
ModJson == [kind |-> "mod_json", n |-> 0]
ModSys == [kind |-> "mod_sys", n |-> 0]
ModTraceback == [kind |-> "mod_traceback", n |-> 0]
FnHandleCommand == [kind |-> "fn_handle_command", n |-> 0]
FnMain == [kind |-> "fn_main", n |-> 0]

\* Python truth value of an object (`if not func`).
Truthy(v) == ~(v.kind = "none" \/ v.kind = "unbound" \/ (v.kind = "int" /\ v.n = 0))

\* json.dumps accepts numbers, None and dicts of those; it raises TypeError
\* on functions and modules.
Serializable(v) == v.kind \in {"int", "none", "dict"}

\* The JSON text json.dumps writes for a serializable object.
ToJSON(v) ==
  IF v.kind = "int" THEN [k |-> "num", n |-> v.n]
  ELSE IF v.kind = "dict" THEN [k |-> "object", n |-> 0]
  ELSE [k |-> "null", n |-> 0]

\* --------------------------------------------------------- the namespace
Names == {"sys", "json", "traceback", "handle_command", "main", "x", "f", "missing"}

\* globals() of the bridge module once its top level has run.
InitGlobals ==
  [nm \in Names |->
     IF nm = "sys" THEN ModSys
     ELSE IF nm = "json" THEN ModJson
     ELSE IF nm = "traceback" THEN ModTraceback
     ELSE IF nm = "handle_command" THEN FnHandleCommand
     ELSE IF nm = "main" THEN FnMain
     ELSE Unbound]

Bound(g, nm) == g[nm].kind # "unbound"

\* ------------------------------------------------------------ code text
\* One statement of the source text in "code".
\*   assign  N = V                  def   def N(x): return x+1
\*   del     del N                  raise raise Exception('boom')
\*   exit    sys.exit()             name  N               lit  V
Stmt(op, nm, val) == [op |-> op, name |-> nm, val |-> val]
Assign(nm, val) == Stmt("assign", nm, val)
Def(nm) == Stmt("def", nm, 0)
Del(nm) == Stmt("del", nm, 0)
Raise == Stmt("raise", "", 0)
Exit == Stmt("exit", "", 0)
Name(nm) == Stmt("name", nm, 0)
Lit(val) == Stmt("lit", "", val)

\* Statements that are also expressions (what eval() compiles).
ExprOps == {"exit", "name", "lit"}

\* Outcome of running code: the namespace afterwards, the exception that
\* left it ("none", "Exception" or "SystemExit") and the value if any.
Outcome(g, exc, val) == [ctx |-> g, exc |-> exc, val |-> val]

\* Run one statement against the namespace g.
RunStmt(s, g) ==
  CASE s.op = "assign" -> Outcome([g EXCEPT ![s.name] = IntV(s.val)], "none", NoneV)
    [] s.op = "def" -> Outcome([g EXCEPT ![s.name] = UserFn], "none", NoneV)
    [] s.op = "del" ->
         IF Bound(g, s.name)
         THEN Outcome([g EXCEPT ![s.name] = Unbound], "none", NoneV)
         ELSE Outcome(g, "Exception", NoneV)
    [] s.op = "raise" -> Outcome(g, "Exception", NoneV)
    [] s.op = "exit" ->
         IF g["sys"].kind = "mod_sys"
         THEN Outcome(g, "SystemExit", NoneV)
         ELSE Outcome(g, "Exception", NoneV)
    [] s.op = "name" ->
         IF Bound(g, s.name)
         THEN Outcome(g, "none", g[s.name])
         ELSE Outcome(g, "Exception", NoneV)
    [] OTHER -> Outcome(g, "none", IntV(s.val))

\* exec(code, globals()) with every binding undone when a statement raises.
RECURSIVE ExecRollback(_, _, _)
ExecRollback(code, g, g0) ==
  IF code = <<>> THEN Outcome(g, "none", NoneV)
  ELSE LET r == RunStmt(Head(code), g)
       IN IF r.exc # "none" THEN Outcome(g0, r.exc, NoneV)
          ELSE ExecRollback(Tail(code), r.ctx, g0)

ExecAtomic(code, g) == ExecRollback(code, g, g)

\* exec(code, globals()): the statements run in order, directly against the
\* namespace, until one raises.
RECURSIVE Exec(_, _)
Exec(code, g) ==
  IF code = <<>> THEN Outcome(g, "none", NoneV)
  ELSE LET r == RunStmt(Head(code), g)
       IN IF r.exc # "none" THEN Outcome(r.ctx, r.exc, NoneV)
          ELSE Exec(Tail(code), r.ctx)

\* eval(code, globals()): code must be one expression, else SyntaxError.
Eval(code, g) ==
  IF Len(code) = 1 /\ code[1].op \in ExprOps
  THEN RunStmt(code[1], g)
  ELSE Outcome(g, "Exception", NoneV)

\* func(*args) for the object func.
\*   user function (x -> x+1): one int argument, else TypeError
\*   handle_command: one argument; a non-dict argument makes it return its
\*                   own error dict
\*   main: no arguments; runs a nested read loop ("nested")
\*   anything else is not callable: TypeError
Invoke(func, args, g) ==
  CASE func.kind = "fn_user" ->
         IF Len(args) = 1 THEN Outcome(g, "none", IntV(args[1] + 1))
         ELSE Outcome(g, "Exception", NoneV)
    [] func.kind = "fn_handle_command" ->
         IF Len(args) = 1 THEN Outcome(g, "none", DictV)
         ELSE Outcome(g, "Exception", NoneV)
    [] func.kind = "fn_main" ->
         IF Len(args) = 0 THEN Outcome(g, "nested", NoneV)
         ELSE Outcome(g, "Exception", NoneV)
    [] OTHER -> Outcome(g, "Exception", NoneV)

\* ------------------------------------------------------------- commands
\* A field of a decoded command: present or not, and its value.
Some(v) == [has |-> TRUE, v |-> v]
NoId == [has |-> FALSE, v |-> 0]
NoType == [has |-> FALSE, v |-> ""]
NoCode == [has |-> FALSE, v |-> <<>>]
NoFn == [has |-> FALSE, v |-> ""]
NoArgs == [has |-> FALSE, v |-> <<>>]

Cmd(id, type, code, fn, args) ==
  [id |-> id, type |-> type, code |-> code, fn |-> fn, args |-> args]
NoCmd == Cmd(NoId, NoType, NoCode, NoFn, NoArgs)

\* An input line: text that is not JSON, JSON that is not an object
\* (5, [1], null, "s"), or a JSON object.
Line(kind, cmd) == [kind |-> kind, cmd |-> cmd]

\* ------------------------------------------------------------ responses
\* The dict handle_command / main build, before json.dumps.
NoErr == [text |-> "", name |-> ""]
Response(status, has, result, err) ==
  [status |-> status, has |-> has, result |-> result, error |-> err, id |-> NoneV]

OkResponse == Response("ok", {"status"}, NoneV, NoErr)
OkResult(v) == Response("ok", {"status", "result"}, v, NoErr)
UnknownCommandResponse ==
  Response("error", {"status", "error"}, NoneV, [text |-> "Unknown command", name |-> ""])
\* The framing error as it would be with a traceback attached.
InvalidJSONTraced ==
  Response("error", {"status", "error", "traceback"}, NoneV,
           [text |-> "Invalid JSON", name |-> ""])
\* {'status': 'error', 'error': 'Invalid JSON'}
InvalidJSONResponse ==
  Response("error", {"status", "error"}, NoneV, [text |-> "Invalid JSON", name |-> ""])
\* The except clause's response as it would be without the traceback.
ErrorResponseNoTrace(err) ==
  Response("error", {"status", "error"}, NoneV, err)
\* {'status': 'error', 'error': str(e), 'traceback': traceback.format_exc()}
ErrorResponse(err) ==
  Response("error", {"status", "error", "traceback"}, NoneV, err)

KeyError(key) == [text |-> "KeyError", name |-> key]
NotFound(fn) == [text |-> "Function not found", name |-> fn]
Raised == [text |-> "exception", name |-> ""]

\* What a call of handle_command does: "return" a response, "raise" an
\* exception out of it, or enter a "nested" main loop.
Result(out, exc, resp, g) == [out |-> out, exc |-> exc, resp |-> resp, ctx |-> g]

\* The except clause: format the traceback through the global `traceback`.
Caught(err, g) ==
  IF g["traceback"].kind = "mod_traceback"
  THEN Result("return", "none", ErrorResponse(err), g)
  ELSE Result("raise", "Exception", OkResponse, g)

\* An outcome of executed code seen from inside the try block: Exception is
\* caught, SystemExit is not (it is no subclass of Exception).
Settle(r, okresp, err) ==
  CASE r.exc = "none" -> Result("return", "none", okresp, r.ctx)
    [] r.exc = "nested" -> Result("nested", "none", OkResponse, r.ctx)
    [] r.exc = "SystemExit" -> Result("raise", "SystemExit", OkResponse, r.ctx)
    [] OTHER -> Caught(err, r.ctx)

handle_exec(cmd, g) ==
  IF ~cmd.code.has THEN Caught(KeyError("code"), g)
  ELSE LET r == Exec(cmd.code.v, g) IN Settle(r, OkResponse, Raised)

handle_eval(cmd, g) ==
  IF ~cmd.code.has THEN Caught(KeyError("code"), g)
  ELSE LET r == Eval(cmd.code.v, g) IN Settle(r, OkResult(r.val), Raised)

handle_call(cmd, g) ==
  IF ~cmd.fn.has THEN Caught(KeyError("fn"), g)
  ELSE LET func == g[cmd.fn.v] IN
       IF ~Truthy(func) THEN Caught(NotFound(cmd.fn.v), g)
       ELSE IF ~cmd.args.has THEN Caught(KeyError("args"), g)
       ELSE LET r == Invoke(func, cmd.args.v, g) IN Settle(r, OkResult(r.val), Raised)

\* The else branch as it would be if it read cmd['code'] first.
handle_unknown_reads_code(cmd, g) ==
  IF ~cmd.code.has THEN Caught(KeyError("code"), g)
  ELSE Result("return", "none", UnknownCommandResponse, g)

\* else: return {'status': 'error', 'error': 'Unknown command'}
handle_unknown(cmd, g) == Result("return", "none", UnknownCommandResponse, g)

\* handle_command(cmd) for a decoded line.  A decoded value that is not a
\* dict fails at cmd['type'] with TypeError, which the except clause catches.
handle_command(line, g) ==
  LET cmd == line.cmd IN
  IF line.kind = "nonobject" THEN Caught(Raised, g)
  ELSE IF ~cmd.type.has THEN Caught(KeyError("type"), g)
  ELSE IF cmd.type.v = "exec" THEN handle_exec(cmd, g)
  ELSE IF cmd.type.v = "eval" THEN handle_eval(cmd, g)
  ELSE IF cmd.type.v = "call" THEN handle_call(cmd, g)
  ELSE handle_unknown(cmd, g)

\* The id attached as it would be if the lookup never found the key.
AttachNoId(resp, cmd) == [resp EXCEPT !.has = @ \cup {"id"}, !.id = NoneV]

\* response['id'] = cmd.get('id')
AttachId(resp, cmd) ==
  [resp EXCEPT !.has = @ \cup {"id"},
               !.id = IF cmd.id.has THEN IntV(cmd.id.v) ELSE NoneV]

\* The line print(json.dumps(response)) writes.
Wire(resp) ==
  [status |-> resp.status, has |-> resp.has, result |-> ToJSON(resp.result),
   error |-> resp.error, id |-> ToJSON(resp.id)]
NoWire == Wire(OkResponse)

\* print(json.dumps(response), flush=True): json is looked up in the
\* namespace; dumps raises TypeError on a result it cannot serialise.
CanDump(resp, g) == g["json"].kind = "mod_json" /\ Serializable(resp.result)

\* One iteration of the loop in main for `line`: "print" a response line,
\* "raise" an exception out of main, or start a "nested" main.
main_line(line, g) ==
  IF g["json"].kind # "mod_json" THEN Result("raise", "Exception", OkResponse, g)
  ELSE IF line.kind = "malformed" THEN Result("print", "none", InvalidJSONResponse, g)
  ELSE IF g["handle_command"].kind # "fn_handle_command"
       THEN Result("raise", "Exception", OkResponse, g)
  ELSE LET h == handle_command(line, g) IN
       IF h.out # "return" THEN h
       ELSE IF line.kind = "nonobject" THEN Result("raise", "Exception", OkResponse, h.ctx)
       ELSE LET resp == AttachId(h.resp, line.cmd) IN
            IF CanDump(resp, h.ctx) THEN Result("print", "none", resp, h.ctx)
            ELSE Result("raise", "Exception", OkResponse, h.ctx)

\* --------------------------------------------------------------- inputs
Ids == {1, 2}
IdOpts == {NoId} \cup {Some(i) : i \in Ids}

Assigns == {Assign("x", 0), Assign("x", 5), Def("f")}
Stmts ==
  Assigns \cup
  {Assign("json", 0), Del("x"), Del("f"), Raise, Exit,
   Name("x"), Name("f"), Name("missing"), Name("json"), Lit(0), Lit(5)}
Programs ==
  {<<s>> : s \in Stmts} \cup
  {<<a, b>> : a \in Assigns, b \in {Raise, Exit, Name("missing")}}
CodeOpts == {NoCode} \cup {Some(p) : p \in Programs}
FnOpts == {NoFn} \cup {Some(nm) : nm \in {"x", "f", "missing", "json", "handle_command", "main"}}
ArgOpts == {NoArgs, Some(<<>>), Some(<<5>>)}

Commands ==
  {Cmd(i, Some(t), c, NoFn, NoArgs) : i \in IdOpts, t \in {"exec", "eval"}, c \in CodeOpts}
  \cup {Cmd(i, Some("call"), NoCode, fn, a) : i \in IdOpts, fn \in FnOpts, a \in ArgOpts}
  \cup {Cmd(i, Some("ping"), c, fn, a) :
          i \in IdOpts, c \in {NoCode, Some(<<Raise>>)},
          fn \in {NoFn, Some("f")}, a \in {NoArgs, Some(<<5>>)}}
  \cup {Cmd(i, NoType, NoCode, NoFn, NoArgs) : i \in IdOpts}

Lines ==
  {Line("malformed", NoCmd), Line("nonobject", NoCmd)}
  \cup {Line("object", c) : c \in Commands}

\* ---------------------------------------------------------------- state
VARIABLES
  ctx,       \* globals(): the shared execution context
  nread,     \* number of lines read from stdin so far
  answered,  \* stdout: for each response line, the input line it answers
  last,      \* the line handled most recently and the response written for it
  stack,     \* calls of main that are waiting for a nested main to return
  status,    \* "running", "eof" (stdin exhausted), "raising", "crashed"
  exc,       \* the exception in flight while status is "raising"/"crashed"
  touched,   \* whether an exec or eval command has been dispatched
  defined    \* per name, the object a succeeded exec command bound it to and
             \* that no later command's code has rebound or removed

vars == <<ctx, nread, answered, last, stack, status, exc, touched, defined>>

Handled(n, line, emitted, resp, via) ==
  [n |-> n, line |-> line, emitted |-> emitted, resp |-> resp, via |-> via]

Init ==
  /\ ctx = InitGlobals
  /\ nread = 0
  /\ answered = <<>>
  /\ last = Handled(0, Line("none", NoCmd), FALSE, NoWire, "none")
  /\ stack = <<>>
  /\ status = "running"
  /\ exc = "none"
  /\ touched = FALSE
  /\ defined = [nm \in Names |-> Unbound]

IsDispatch(line, t) == line.kind = "object" /\ line.cmd.type.has /\ line.cmd.type.v = t

\* The statements of code that bind or remove the name nm.
Binders(code, nm) ==
  {i \in 1..Len(code) : code[i].op \in {"assign", "def", "del"} /\ code[i].name = nm}

\* The object the text of code leaves nm bound to, going by its last
\* statement that binds or removes nm.
BoundBy(code, nm) ==
  LET i == CHOOSE k \in Binders(code, nm) : \A j \in Binders(code, nm) : j <= k
  IN IF code[i].op = "assign" THEN IntV(code[i].val)
     ELSE IF code[i].op = "def" THEN UserFn
     ELSE Unbound

\* The bookkeeping of `defined` for a handled line: a command whose code
\* binds or removes nm replaces the entry, by the binding when the command
\* is an exec that was answered with status ok, by nothing otherwise.
Track(d, line, r) ==
  [nm \in Names |->
     IF line.kind = "object" /\ line.cmd.code.has /\ Binders(line.cmd.code.v, nm) # {}
     THEN IF IsDispatch(line, "exec") /\ r.out = "print" /\ r.resp.status = "ok"
          THEN BoundBy(line.cmd.code.v, nm)
          ELSE Unbound
     ELSE d[nm]]

\* `for line in sys.stdin:` delivers a line and the loop body handles it.
MainReadLine ==
  /\ status = "running"
  /\ nread < MaxLines
  /\ \E line \in Lines :
       LET r == main_line(line, ctx)
           n == nread + 1
       IN /\ nread' = n
          /\ ctx' = r.ctx
          /\ touched' = (touched \/ IsDispatch(line, "exec") \/ IsDispatch(line, "eval"))
          /\ defined' = Track(defined, line, r)
          /\ CASE r.out = "print" ->
                    /\ answered' = Append(answered, n)
                    /\ last' = Handled(n, line, TRUE, Wire(r.resp), "direct")
                    /\ UNCHANGED <<stack, status, exc>>
               [] r.out = "nested" ->
                    /\ stack' = Append(stack, [n |-> n, line |-> line])
                    /\ last' = Handled(n, line, FALSE, NoWire, "direct")
                    /\ UNCHANGED <<answered, status, exc>>
               [] OTHER ->
                    /\ status' = IF stack = <<>> THEN "crashed" ELSE "raising"
                    /\ exc' = r.exc
                    /\ last' = Handled(n, line, FALSE, NoWire, "direct")
                    /\ UNCHANGED <<answered, stack>>

\* stdin is exhausted: the innermost `for` loop ends.
MainEndOfInput ==
  /\ status = "running"
  /\ status' = "eof"
  /\ UNCHANGED <<ctx, nread, answered, last, stack, exc, touched, defined>>

\* A nested main returns None to the call command that started it; that
\* command's response is built, given its id and printed by the enclosing
\* main, whose own loop then finds stdin exhausted as well.
MainReturn ==
  /\ status = "eof"
  /\ stack # <<>>
  /\ LET top == stack[Len(stack)]
         resp == AttachId(OkResult(NoneV), top.line.cmd)
     IN /\ stack' = SubSeq(stack, 1, Len(stack) - 1)
        /\ IF CanDump(resp, ctx)
           THEN /\ answered' = Append(answered, top.n)
                /\ last' = Handled(top.n, top.line, TRUE, Wire(resp), "return")
                /\ UNCHANGED <<status, exc>>
           ELSE /\ status' = IF Len(stack) = 1 THEN "crashed" ELSE "raising"
                /\ exc' = "Exception"
                /\ last' = Handled(top.n, top.line, FALSE, NoWire, "return")
                /\ UNCHANGED answered
  /\ UNCHANGED <<ctx, nread, touched, defined>>

\* An exception leaves a nested main and arrives in the handle_command that
\* called it: `except Exception` turns an Exception into that call
\* command's error response and the enclosing loop goes on; SystemExit
\* passes through.
MainPropagate ==
  /\ status = "raising"
  /\ stack # <<>>
  /\ LET top == stack[Len(stack)]
         h == IF exc = "Exception" THEN Caught(Raised, ctx)
              ELSE Result("raise", exc, OkResponse, ctx)
         resp == AttachId(h.resp, top.line.cmd)
         printed == h.out = "return" /\ CanDump(resp, ctx)
     IN /\ stack' = SubSeq(stack, 1, Len(stack) - 1)
        /\ IF printed
           THEN /\ answered' = Append(answered, top.n)
                /\ last' = Handled(top.n, top.line, TRUE, Wire(resp), "caught")
                /\ status' = "running"
                /\ exc' = "none"
           ELSE /\ status' = IF Len(stack) = 1 THEN "crashed" ELSE "raising"
                /\ exc' = IF h.out = "raise" THEN h.exc ELSE "Exception"
                /\ last' = Handled(top.n, top.line, FALSE, NoWire, "caught")
                /\ UNCHANGED answered
  /\ UNCHANGED <<ctx, nread, touched, defined>>

Next == MainReadLine \/ MainEndOfInput \/ MainReturn \/ MainPropagate

Spec == Init /\ [][Next]_vars

\* ----------------------------------------------------------- properties
\* Shorthands for the line handled most recently.
LastCmd == last.line.cmd
LastIsCommand == last.n > 0 /\ last.line.kind = "object"
LastDirect == last.n > 0 /\ last.via = "direct"
LastType(t) == LastIsCommand /\ IsDispatch(last.line, t)
LastUnknownType ==
  LastIsCommand /\ LastCmd.type.has /\ LastCmd.type.v \notin {"exec", "eval", "call"}
\* The id a response to the last command must carry on the wire.
EchoedId ==
  IF LastCmd.id.has THEN [k |-> "num", n |-> LastCmd.id.v] ELSE [k |-> "null", n |-> 0]
LoopAlive == status \in {"running", "eof"}

\* C1: every line read has exactly one response, the k-th response answers
\* the k-th line, and it is written before the next line is read: after
\* every step the responses written are those of lines 1..nread, in order,
\* the last line read being the only one that may still be in progress.
C1_OneResponsePerLineInOrder ==
  /\ \A k \in 1..Len(answered) : answered[k] = k
  /\ \/ Len(answered) = nread
     \/ /\ Len(answered) = nread - 1
        /\ status # "crashed"
        /\ Len(stack) = 1 /\ stack[1].n = nread

\* C2: no parsed command terminates the loop: once a command has been
\* handled the loop is still reading (or has found the input exhausted) and
\* the command's outcome was written as a response, or is that of a call
\* still in progress.
C2_NoCommandStopsTheLoop ==
  LastIsCommand =>
    /\ LoopAlive
    /\ (last.emitted \/ \E i \in 1..Len(stack) : stack[i].n = last.n)

\* C3: the response to a parsed command carries the command's id, null when
\* the command has none, whatever the type and the outcome.
C3_IdEchoed ==
  (LastIsCommand /\ last.emitted) =>
    /\ "id" \in last.resp.has
    /\ last.resp.id = EchoedId

\* C3 witness: a failing command with id 2 was answered with id 2.
C3_Witness ==
  /\ LastIsCommand /\ last.emitted
  /\ last.resp.status = "error"
  /\ LastCmd.id = Some(2)
  /\ last.resp.id = [k |-> "num", n |-> 2]

\* C4: when a succeeded exec bound N to V and nothing rebound or removed N
\* since, an eval of N is answered with status ok and result V.
C4_EvalSeesBinding ==
  \A nm \in Names :
    (/\ LastDirect /\ LastType("eval")
     /\ LastCmd.code = Some(<<Name(nm)>>)
     /\ defined[nm] # Unbound)
    => /\ last.emitted
       /\ last.resp.status = "ok"
       /\ "result" \in last.resp.has
       /\ (defined[nm].kind = "int" => last.resp.result = [k |-> "num", n |-> defined[nm].n])

\* C5: a call is answered "not found" exactly when fn is not bound in the
\* context; a bound fn is invoked with args and its return value reported
\* (f bound by def f(x): return x+1, args [5]: result 6).
C5_NotFoundIffUnbound ==
  (LastDirect /\ LastType("call") /\ LastCmd.fn.has) =>
    LET notFound == /\ last.emitted
                    /\ last.resp.status = "error"
                    /\ last.resp.error = NotFound(LastCmd.fn.v)
                    /\ last.resp.id = EchoedId
    IN /\ notFound <=> ~Bound(ctx, LastCmd.fn.v)
       /\ (ctx[LastCmd.fn.v] = UserFn /\ LastCmd.args = Some(<<5>>)) =>
            /\ last.emitted
            /\ last.resp.status = "ok"
            /\ "result" \in last.resp.has
            /\ last.resp.result = [k |-> "num", n |-> 6]

\* C6: a line that is not JSON gets exactly one response, with status error
\* and the fixed message, without id and traceback, and the loop goes on.
C6_MalformedLine ==
  (LastDirect /\ last.line.kind = "malformed") =>
    /\ last.emitted
    /\ last.resp.status = "error"
    /\ last.resp.error = [text |-> "Invalid JSON", name |-> ""]
    /\ last.resp.has = {"status", "error"}
    /\ Cardinality({k \in 1..Len(answered) : answered[k] = last.n}) = 1
    /\ LoopAlive

\* C6 witness: a malformed second line, read after a command, was answered.
C6_Witness ==
  /\ LastDirect /\ last.line.kind = "malformed" /\ last.n = 2
  /\ last.emitted
  /\ answered = <<1, 2>>

C8_ResponseShape ==
  last.emitted =>
    LET r == last.resp IN
    /\ r.status \in {"ok", "error"}
    /\ r.status = "ok" => ("error" \notin r.has /\ "traceback" \notin r.has)
    /\ r.status = "error" => ("error" \in r.has /\ "result" \notin r.has)
    /\ (r.status = "ok" /\ LastType("exec")) => "result" \notin r.has
    /\ (r.status = "ok" /\ (LastType("eval") \/ LastType("call"))) => "result" \in r.has
    /\ (r.status = "error" /\ (LastType("exec") \/ LastType("eval") \/ LastType("call")))
         => "traceback" \in r.has
    /\ (last.line.kind = "malformed" \/ LastUnknownType) => "traceback" \notin r.has

\* C8 witness: an exec whose code raised was answered with a traceback.
C8_Witness ==
  /\ last.emitted /\ LastType("exec")
  /\ LastCmd.code = Some(<<Raise>>)
  /\ last.resp.status = "error"
  /\ "traceback" \in last.resp.has

\* C9: before any exec or eval command, every call command (fn and args
\* given) is answered "not found", whatever fn is.
C9_FreshCallNotFound ==
  (~touched /\ LastType("call") /\ LastCmd.fn.has /\ LastCmd.args.has) =>
    /\ last.emitted
    /\ last.resp.status = "error"
    /\ last.resp.error = NotFound(LastCmd.fn.v)

\* The bindings a failed two-statement exec made before it failed are in
\* the context.
C10_PartialExecKept ==
  (/\ LastDirect /\ LastType("exec") /\ LastCmd.code.has
   /\ Len(LastCmd.code.v) = 2
   /\ LastCmd.code.v[1].op \in {"assign", "def"}
   /\ last.emitted /\ last.resp.status = "error")
  => ctx[LastCmd.code.v[1].name] =
       IF LastCmd.code.v[1].op = "assign" THEN IntV(LastCmd.code.v[1].val) ELSE UserFn

\* Handling a malformed line, an unknown-type command or a call answered
\* "not found" leaves the context as it was.
C10_ErrorsKeepContext ==
  (/\ nread' = nread + 1
   /\ \/ last'.line.kind = "malformed"
      \/ (last'.line.kind = "object" /\ last'.line.cmd.type.has
          /\ last'.line.cmd.type.v \notin {"exec", "eval", "call"})
      \/ (IsDispatch(last'.line, "call") /\ last'.emitted
          /\ last'.resp.error.text = "Function not found"))
  => ctx' = ctx

\* C10: exec is not atomic: the bindings made before the failing statement
\* stay; framing errors, unknown-type commands and not-found calls leave the
\* context unchanged.
C10_ExecNotAtomic == []C10_PartialExecKept /\ [][C10_ErrorsKeepContext]_vars

\* C10 witness: x = 5 followed by a raise was answered with an error and x
\* is 5 in the context.
C10_Witness ==
  /\ LastDirect /\ LastType("exec")
  /\ LastCmd.code = Some(<<Assign("x", 5), Raise>>)
  /\ last.emitted /\ last.resp.status = "error"
  /\ ctx["x"] = IntV(5)

====
